---- MODULE Spec2Model ----
(***************************************************************************)
(* CalcAgent: the step-by-step reduction of an arithmetic expression.      *)
(*                                                                         *)
(* A Python str is modelled as a sequence of one-character strings, so     *)
(* that offsets, slices and spans are computed as the code computes them.  *)
(* Offsets are the code's: 0-based, half-open.                             *)
(***************************************************************************)
EXTENDS Integers, Sequences, FiniteSets, TLC

None == "None"
NoneText == <<"None">>

Digits == {"0", "1", "2", "3", "4", "5", "6", "7", "8", "9"}
OpChars == {"+", "-", "*", "/"}
SignChars == {"+", "-"}
ExpChars == {"e", "E"}

IsSpace(c) == c = " "

DigitVal(c) ==
  CASE c = "0" -> 0 [] c = "1" -> 1 [] c = "2" -> 2 [] c = "3" -> 3
    [] c = "4" -> 4 [] c = "5" -> 5 [] c = "6" -> 6 [] c = "7" -> 7
    [] c = "8" -> 8 [] c = "9" -> 9

DigitChar(n) == <<"0", "1", "2", "3", "4", "5", "6", "7", "8", "9">>[n + 1]

Min(a, b) == IF a < b THEN a ELSE b
Max(a, b) == IF a > b THEN a ELSE b
Abs(a) == IF a < 0 THEN -a ELSE a

(***************************************************************************)
(* Python string primitives                                                *)
(***************************************************************************)

\* s[i] for 0 <= i < len(s)
At(s, i) == s[i + 1]

\* a slice bound as Python resolves it: negative counts from the end, then clamped
SliceBound(i, n) == IF i < 0 THEN Max(i + n, 0) ELSE Min(i, n)

\* s[a:b]
Slice(s, a, b) ==
  LET lo == SliceBound(a, Len(s))
      hi == SliceBound(b, Len(s))
  IN IF lo >= hi THEN <<>> ELSE SubSeq(s, lo + 1, hi)

\* whether s[i] raises IndexError
IndexError(s, i) == i >= Len(s) \/ i < -Len(s)

\* s[i] for any i that does not raise (negative i counts from the end)
Index(s, i) == IF i < 0 THEN s[i + Len(s) + 1] ELSE s[i + 1]

RECURSIVE LStrip(_)
LStrip(s) == IF s # <<>> /\ IsSpace(Head(s)) THEN LStrip(Tail(s)) ELSE s

RECURSIVE RStrip(_)
RStrip(s) ==
  IF s # <<>> /\ IsSpace(s[Len(s)]) THEN RStrip(SubSeq(s, 1, Len(s) - 1)) ELSE s

\* str.strip()
Strip(s) == RStrip(LStrip(s))

RECURSIVE SkipDigits(_, _)
\* while i < len(e) and e[i].isdigit(): i += 1
SkipDigits(e, i) ==
  IF i < Len(e) /\ At(e, i) \in Digits THEN SkipDigits(e, i + 1) ELSE i

(***************************************************************************)
(* ustils.py                                                               *)
(***************************************************************************)

Priority(op) ==
  CASE op = "+" -> 1 [] op = "-" -> 1 [] op = "*" -> 2 [] op = "/" -> 2
    [] OTHER -> 0

ToolOf(op) ==
  CASE op = "+" -> "add" [] op = "-" -> "sub" [] op = "*" -> "mul" [] op = "/" -> "div"

\* whether e, whole, matches [+-]?(\d+\.?\d*|\d*\.?\d+)([eE][+-]?\d+)?
MatchesNumber(e) ==
  LET a == IF 0 < Len(e) /\ At(e, 0) \in SignChars THEN 1 ELSE 0
      b == SkipDigits(e, a)
      c == IF b < Len(e) /\ At(e, b) = "." THEN b + 1 ELSE b
      d == SkipDigits(e, c)
      mantissa == (b - a) + (d - c) >= 1
  IN /\ mantissa
     /\ IF d < Len(e) /\ At(e, d) \in ExpChars
        THEN LET s == IF d + 1 < Len(e) /\ At(e, d + 1) \in SignChars THEN d + 2 ELSE d + 1
                 t == SkipDigits(e, s)
             IN t > s /\ t = Len(e)
        ELSE d = Len(e)

is_single_number(expr) ==
  LET e == Strip(expr) IN
  IF e = <<>> THEN FALSE ELSE MatchesNumber(e)

\* the scan of a number literal without its exponent part
ScanNumberNoExponent(e, i) ==
  LET a == IF At(e, i) \in SignChars THEN i + 1 ELSE i
      b == SkipDigits(e, a)
  IN IF b < Len(e) /\ At(e, b) = "." THEN SkipDigits(e, b + 1) ELSE b

\* the end offset of the number literal scanned from offset i
ScanNumber(e, i) ==
  LET a == IF At(e, i) \in SignChars THEN i + 1 ELSE i
      b == SkipDigits(e, a)
      c == IF b < Len(e) /\ At(e, b) = "." THEN SkipDigits(e, b + 1) ELSE b
  IN IF c < Len(e) /\ At(e, c) \in ExpChars
     THEN LET s == IF c + 1 < Len(e) /\ At(e, c + 1) \in SignChars THEN c + 2 ELSE c + 1
          IN SkipDigits(e, s)
     ELSE c

Token(type, value, start, end) ==
  [type |-> type, value |-> value, start |-> start, end |-> end]

RECURSIVE Tokenize(_, _, _)
\* the while loop of parse_expression, from offset i with the tokens so far
Tokenize(e, i, tokens) ==
  IF i >= Len(e) THEN tokens
  ELSE LET c == At(e, i) IN
    IF IsSpace(c) THEN Tokenize(e, i + 1, tokens)
    ELSE IF c \in OpChars /\ tokens # <<>> /\ tokens[Len(tokens)].type = "number"
    THEN Tokenize(e, i + 1, Append(tokens, Token("operator", <<c>>, i, i + 1)))
    ELSE IF c \in Digits \/ c \in SignChars \/ c = "."
    THEN LET j == ScanNumber(e, i)
         IN Tokenize(e, j, Append(tokens, Token("number", SubSeq(e, i + 1, j), i, j)))
    ELSE Tokenize(e, i + 1, tokens)

parse_expression(expr) == Tokenize(Strip(expr), 0, <<>>)

RECURSIVE BestOpFromRightmost(_, _, _, _)
\* find_next_operation's scan with >= for >: among equal priorities the last one wins
BestOpFromRightmost(tokens, i, best_op_idx, best_priority) ==
  IF i >= Len(tokens) THEN best_op_idx
  ELSE LET token == At(tokens, i)
           priority == Priority(token.value[1])
       IN IF token.type = "operator" /\ priority >= best_priority
          THEN BestOpFromRightmost(tokens, i + 1, i, priority)
          ELSE BestOpFromRightmost(tokens, i + 1, best_op_idx, best_priority)

RECURSIVE BestOpFrom(_, _, _, _)
\* the scan of find_next_operation: the index (0-based) of the operator token kept
\* after looking at tokens i.., or -1 for None
BestOpFrom(tokens, i, best_op_idx, best_priority) ==
  IF i >= Len(tokens) THEN best_op_idx
  ELSE LET token == At(tokens, i)
           priority == Priority(token.value[1])
       IN IF token.type = "operator" /\ priority > best_priority
          THEN BestOpFrom(tokens, i + 1, i, priority)
          ELSE BestOpFrom(tokens, i + 1, best_op_idx, best_priority)

BestOp(tokens) == BestOpFrom(tokens, 0, -1, -1)

NoOperation == [kind |-> "none"]
RaisedOperation == [kind |-> "raise"]

\* kind "none" is a returned None, kind "raise" an IndexError on tokens[best_op_idx + 1]
find_next_operation(tokens) ==
  IF Len(tokens) < 3 THEN NoOperation
  ELSE LET idx == BestOp(tokens) IN
    IF idx = -1 THEN NoOperation
    ELSE IF IndexError(tokens, idx + 1) THEN RaisedOperation
    ELSE LET op_token == At(tokens, idx)
             lhs_token == Index(tokens, idx - 1)
             rhs_token == At(tokens, idx + 1)
         IN [kind |-> "op",
             operator |-> op_token.value[1],
             lhs |-> lhs_token.value,
             rhs |-> rhs_token.value,
             span |-> <<lhs_token.start, rhs_token.end>>,
             tool |-> ToolOf(op_token.value[1])]

\* whether replace_span raises: the unpacking of span, or an index out of range
ReplaceSpanRaises(expr, span) ==
  \/ Len(span) # 2
  \/ LET start == span[1]
         end == span[2]
     IN /\ start > 0
        /\ end < Len(expr)
        /\ \/ IndexError(expr, start - 1)
           \/ Index(expr, start - 1) = "(" /\ IndexError(expr, end)

\* replace_span without the widening over a pair of parentheses
replace_span_plain(expr, span, replacement) ==
  Slice(expr, 0, span[1]) \o replacement \o Slice(expr, span[2], Len(expr))

replace_span(expr, span, replacement) ==
  LET start == span[1]
      end == span[2]
      widen == /\ start > 0
               /\ end < Len(expr)
               /\ Index(expr, start - 1) = "("
               /\ Index(expr, end) = ")"
      s == IF widen THEN start - 1 ELSE start
      t == IF widen THEN end + 1 ELSE end
  IN Slice(expr, 0, s) \o replacement \o Slice(expr, t, Len(expr))

(***************************************************************************)
(* Numbers.  A Python float is modelled as the exact rational it stands    *)
(* for, n/d in lowest terms with d > 0.  Within the bounds of this model   *)
(* every text that is parsed has at most 7 significant digits and every    *)
(* result is far inside the range of a double, where the arithmetic of the *)
(* tools and the 6-digit rounding of "%g" give the same text on the double *)
(* and on the rational.                                                    *)
(***************************************************************************)

RECURSIVE GCD(_, _)
GCD(a, b) == IF b = 0 THEN a ELSE GCD(b, a % b)

Rat(n, d) ==
  LET g == GCD(Abs(n), d)
  IN [n |-> (IF n < 0 THEN -(Abs(n) \div g) ELSE n \div g), d |-> d \div g]

RECURSIVE Pow10(_)
Pow10(k) == IF k = 0 THEN 1 ELSE 10 * Pow10(k - 1)

RECURSIVE DigitsValue(_)
\* int() of a sequence of digit characters (0 for the empty one)
DigitsValue(ds) ==
  IF ds = <<>> THEN 0
  ELSE 10 * DigitsValue(SubSeq(ds, 1, Len(ds) - 1)) + DigitVal(ds[Len(ds)])

RECURSIVE NatToText(_)
\* str(n) for an int n >= 0
NatToText(n) ==
  IF n < 10 THEN <<DigitChar(n)>> ELSE Append(NatToText(n \div 10), DigitChar(n % 10))

\* str(n) for an int n
IntToText(n) == IF n < 0 THEN <<"-">> \o NatToText(-n) ELSE NatToText(n)

\* float(text): text matches the number pattern
ParseFloat(text) ==
  LET a == IF At(text, 0) \in SignChars THEN 1 ELSE 0
      b == SkipDigits(text, a)
      c == IF b < Len(text) /\ At(text, b) = "." THEN b + 1 ELSE b
      d == SkipDigits(text, c)
      sign == IF At(text, 0) = "-" THEN -1 ELSE 1
      mant == DigitsValue(SubSeq(text, a + 1, b) \o SubSeq(text, c + 1, d))
      exp == IF d < Len(text)
             THEN LET s == IF At(text, d + 1) \in SignChars THEN d + 2 ELSE d + 1
                      v == DigitsValue(SubSeq(text, s + 1, Len(text)))
                  IN IF At(text, d + 1) = "-" THEN -v ELSE v
             ELSE 0
      e10 == exp - (d - c)
  IN IF e10 >= 0 THEN Rat(sign * mant * Pow10(e10), 1)
     ELSE Rat(sign * mant, Pow10(-e10))

\* whether float(text) raises ValueError
FloatRaises(text) == text = <<>> \/ ~MatchesNumber(Strip(text))

RAdd(x, y) == Rat(x.n * y.d + y.n * x.d, x.d * y.d)
RSub(x, y) == Rat(x.n * y.d - y.n * x.d, x.d * y.d)
RMul(x, y) == Rat(x.n * y.n, x.d * y.d)
RDiv(x, y) == IF y.n < 0 THEN Rat(-(x.n * y.d), x.d * (-y.n)) ELSE Rat(x.n * y.d, x.d * y.n)

RECURSIVE FracDigits(_, _, _)
\* the next k digits of r/d after the decimal point (0 <= r < d), and the remainder left
FracDigits(r, d, k) ==
  IF k = 0 THEN [ds |-> <<>>, r |-> r]
  ELSE LET rest == FracDigits((r * 10) % d, d, k - 1)
       IN [ds |-> <<DigitChar((r * 10) \div d)>> \o rest.ds, r |-> rest.r]

RECURSIVE LeadingZeros(_, _)
\* the number of zeros r/d has after the decimal point before its first digit (0 < r < d)
LeadingZeros(r, d) == IF r * 10 >= d THEN 0 ELSE 1 + LeadingZeros(r * 10, d)

RECURSIVE StripZeros(_)
\* a digit sequence without its trailing zeros
StripZeros(ds) ==
  IF ds # <<>> /\ ds[Len(ds)] = "0" THEN StripZeros(SubSeq(ds, 1, Len(ds) - 1)) ELSE ds

RECURSIVE Zeros(_)
Zeros(k) == IF k = 0 THEN <<>> ELSE <<"0">> \o Zeros(k - 1)

\* f"{value:g}" for a value that is not an integer: 6 significant digits, rounded
\* half to even, trailing zeros removed, exponent form when the exponent is < -4 or >= 6
FormatG(v) ==
  LET a == Abs(v.n)
      ip == a \div v.d
      r0 == a % v.d
      id == IF ip = 0 THEN <<>> ELSE NatToText(ip)
      z == IF ip = 0 THEN LeadingZeros(r0, v.d) ELSE 0
      x0 == IF ip = 0 THEN -(z + 1) ELSE Len(id) - 1
      fr == FracDigits(IF ip = 0 THEN r0 * Pow10(z) ELSE r0, v.d,
                       IF Len(id) >= 7 THEN 0 ELSE 7 - Len(id))
      stream == id \o fr.ds
      sig6 == DigitsValue(SubSeq(stream, 1, 6))
      next == DigitVal(stream[7])
      sticky == fr.r # 0 \/ \E i \in 8..Len(stream) : stream[i] # "0"
      up == next > 5 \/ (next = 5 /\ (sticky \/ sig6 % 2 = 1))
      carry == up /\ sig6 = 999999
      sig == IF carry THEN 100000 ELSE IF up THEN sig6 + 1 ELSE sig6
      x == IF carry THEN x0 + 1 ELSE x0
      sd == NatToText(sig)
      frac(ds) == LET t == StripZeros(ds) IN IF t = <<>> THEN <<>> ELSE <<".">> \o t
      body == IF x < -4 \/ x >= 6
              THEN <<sd[1]>> \o frac(SubSeq(sd, 2, 6))
                   \o <<"e", IF x < 0 THEN "-" ELSE "+">>
                   \o (IF Abs(x) < 10 THEN <<"0">> ELSE <<>>) \o NatToText(Abs(x))
              ELSE IF x >= 0
              THEN SubSeq(sd, 1, x + 1) \o frac(SubSeq(sd, x + 2, 6))
              ELSE <<"0", ".">> \o Zeros(-x - 1) \o StripZeros(sd)
  IN (IF v.n < 0 THEN <<"-">> ELSE <<>>) \o body

format_number(value) ==
  IF value.n % value.d = 0 THEN IntToText(value.n \div value.d) ELSE FormatG(value)

(***************************************************************************)
(* tools.py                                                                *)
(***************************************************************************)

ToolValue(v) == [kind |-> "value", value |-> v, error |-> None]
ToolError(e) == [kind |-> "error", value |-> Rat(0, 1), error |-> e]

add(lhs, rhs) == ToolValue(RAdd(lhs, rhs))
sub(lhs, rhs) == ToolValue(RSub(lhs, rhs))
mul(lhs, rhs) == ToolValue(RMul(lhs, rhs))
div(lhs, rhs) == IF rhs.n = 0 THEN ToolError("division by zero") ELSE ToolValue(RDiv(lhs, rhs))

CALC_TOOLS == {"add", "sub", "mul", "div"}

RunTool(name, lhs, rhs) ==
  CASE name = "add" -> add(lhs, rhs)
    [] name = "sub" -> sub(lhs, rhs)
    [] name = "mul" -> mul(lhs, rhs)
    [] name = "div" -> div(lhs, rhs)

(***************************************************************************)
(* state.py, graph.py: the graph's state and its nodes                     *)
(***************************************************************************)

VARIABLES
  input,        \* what the caller passed to graph.invoke as "expression"
  pc,           \* the node to run next; "done" is END, "raised" an exception out of invoke
  expression,   \* CalcState.expression: the history of snapshots
  messages,     \* CalcState.messages
  operator,     \* CalcState.operator
  lhs,          \* CalcState.lhs
  rhs,          \* CalcState.rhs
  span,         \* CalcState.span
  tool,         \* CalcState.tool
  error,        \* CalcState.error
  asked,        \* the expression the last decision call was given
  decisions,    \* the decision calls made (judge_llm.invoke)
  computations  \* the computation calls made (calc_llm.invoke)

vars ==
  <<input, pc, expression, messages, operator, lhs, rhs, span, tool, error,
    asked, decisions, computations>>

\* a span is None or a JSON list
NoneSpan == [isNone |-> TRUE, v |-> <<>>]
ListSpan(v) == [isNone |-> FALSE, v |-> v]
\* Python's truth value of a span
Truthy(sp) == ~sp.isNone /\ sp.v # <<>>

Last(h) == h[Len(h)]

MissingInput == [kind |-> "missing", text |-> <<>>, list |-> <<>>]
StrInput(s) == [kind |-> "str", text |-> s, list |-> <<>>]
ListInput(l) == [kind |-> "list", text |-> <<>>, list |-> l]

\* the expression list start_node returns
StartExpression(in) ==
  IF in.kind = "str" THEN <<in.text>>
  ELSE IF in.kind = "missing" \/ in.list = <<>> THEN << <<"0">> >>
  ELSE in.list

\* the rewrites made so far
Rewrites == Len(expression) - Len(StartExpression(input))

InitWith(inputs) ==
  /\ input \in inputs
  /\ pc = "start"
  /\ expression = <<>>
  /\ messages = <<>>
  /\ operator = None
  /\ lhs = NoneText
  /\ rhs = NoneText
  /\ span = NoneSpan
  /\ tool = None
  /\ error = None
  /\ asked = NoneText
  /\ decisions = 0
  /\ computations = 0

StartNode ==
  /\ pc = "start"
  /\ expression' = StartExpression(input)
  /\ pc' = "judge"
  /\ UNCHANGED <<input, messages, operator, lhs, rhs, span, tool, error,
                 asked, decisions, computations>>

\* the decision collaborator's answers: a failure (the call raises, or its content
\* is not a JSON object), or a JSON object with the five keys (None for a missing one)
JudgeRaise == [kind |-> "raise"]
JudgeDict(op, l, r, sp, t) ==
  [kind |-> "dict", operator |-> op, lhs |-> l, rhs |-> r, span |-> sp, tool |-> t]

\* route_after_judge on the state judge_node leaves
route_after_judge(err, expression_list, op) ==
  IF err # None THEN "done"
  ELSE IF expression_list # <<>> /\ is_single_number(Last(expression_list)) THEN "done"
  ELSE IF op # None THEN "calc"
  ELSE "done"

\* judge_node without its early return on a single number
JudgeNodeAlwaysAsks(resp) ==
  /\ pc = "judge"
  /\ IF expression = <<>>
     THEN /\ error' = "expression is empty"
          /\ UNCHANGED <<operator, lhs, rhs, span, tool, asked, decisions>>
     ELSE /\ asked' = Last(expression)
          /\ decisions' = decisions + 1
          /\ IF resp.kind = "raise"
             THEN /\ error' = "judge_node failed"
                  /\ UNCHANGED <<operator, lhs, rhs, span, tool>>
             ELSE /\ operator' = resp.operator
                  /\ lhs' = resp.lhs
                  /\ rhs' = resp.rhs
                  /\ span' = resp.span
                  /\ tool' = resp.tool
                  /\ UNCHANGED error
  /\ pc' = route_after_judge(error', expression, operator')
  /\ UNCHANGED <<input, expression, messages, computations>>

JudgeNode(resp) ==
  /\ pc = "judge"
  /\ IF expression = <<>>
     THEN /\ error' = "expression is empty"
          /\ UNCHANGED <<operator, lhs, rhs, span, tool, asked, decisions>>
     ELSE IF is_single_number(Last(expression))
     THEN UNCHANGED <<operator, lhs, rhs, span, tool, error, asked, decisions>>
     ELSE /\ asked' = Last(expression)
          /\ decisions' = decisions + 1
          /\ IF resp.kind = "raise"
             THEN /\ error' = "judge_node failed"
                  /\ UNCHANGED <<operator, lhs, rhs, span, tool>>
             ELSE /\ operator' = resp.operator
                  /\ lhs' = resp.lhs
                  /\ rhs' = resp.rhs
                  /\ span' = resp.span
                  /\ tool' = resp.tool
                  /\ UNCHANGED error
  /\ pc' = route_after_judge(error', expression, operator')
  /\ UNCHANGED <<input, expression, messages, computations>>

\* messages: an AIMessage carries tool calls, a ToolMessage a content
NoContent == [kind |-> "none", value |-> Rat(0, 1), error |-> None]
AIMessage(calls) == [type |-> "ai", calls |-> calls, content |-> NoContent]
ToolMessage(content) == [type |-> "tool", calls |-> <<>>, content |-> content]
\* a content that is no JSON: what ToolNode writes for a call it cannot run
TextContent == [kind |-> "text", value |-> Rat(0, 1), error |-> None]

\* a tool call: valid is whether ToolNode can run it (a known tool, two float arguments)
ToolCall(name, l, r) == [valid |-> TRUE, name |-> name, lhs |-> l, rhs |-> r]
BadCall == [valid |-> FALSE, name |-> None, lhs |-> Rat(0, 1), rhs |-> Rat(0, 1)]

\* the computation collaborator's answers: the call raises, or an AIMessage
CalcRaise == [kind |-> "raise", calls |-> <<>>]
CalcMessage(calls) == [kind |-> "message", calls |-> calls]

CalcNode(resp) ==
  /\ pc = "calc"
  /\ IF operator = None
     THEN /\ error' = "no operator found"
          /\ pc' = "tool"
          /\ UNCHANGED <<messages, computations>>
     ELSE /\ computations' = computations + 1
          /\ IF resp.kind = "raise"
             THEN /\ pc' = "raised"
                  /\ UNCHANGED messages
             ELSE /\ pc' = "tool"
                  /\ messages' = Append(messages, AIMessage(resp.calls))
          /\ UNCHANGED error
  /\ UNCHANGED <<input, expression, operator, lhs, rhs, span, tool, asked, decisions>>

RECURSIVE RunCalls(_)
\* the ToolMessages of ToolNode for a list of tool calls
RunCalls(calls) ==
  IF calls = <<>> THEN <<>>
  ELSE LET c == Head(calls)
       IN <<ToolMessage(IF c.valid THEN RunTool(c.name, c.lhs, c.rhs) ELSE TextContent)>>
          \o RunCalls(Tail(calls))

\* tool_node_executor: ToolNode(CALC_TOOLS) runs the calls of the last AIMessage
ToolNode ==
  /\ pc = "tool"
  /\ IF messages = <<>> \/ Last(messages).type # "ai"
     THEN /\ pc' = "raised"
          /\ UNCHANGED messages
     ELSE /\ pc' = "update"
          /\ messages' = messages \o RunCalls(Last(messages).calls)
  /\ UNCHANGED <<input, expression, operator, lhs, rhs, span, tool, error,
                 asked, decisions, computations>>

route_after_update(err) == IF err # None THEN "done" ELSE "judge"

\* an edge update_node -> calc_node in place of the edges to judge_node
AfterUpdateToCalc(err) == {"calc"}

\* the nodes that run after update_node: the fixed edge update_node -> judge_node is
\* followed whatever the conditional edge answers, and END starts nothing
AfterUpdate(err) == {"judge"} \cup ({route_after_update(err)} \ {"done"})

\* the error update_node returns before it rewrites, or None
UpdateError ==
  IF messages = <<>> THEN "no messages found"
  ELSE IF Last(messages).type # "tool" THEN "last message is not a ToolMessage"
  ELSE IF Last(messages).content.kind = "text" THEN "failed to parse tool result"
  ELSE IF Last(messages).content.kind = "error" THEN Last(messages).content.error
  ELSE IF Truthy(span) /\ ReplaceSpanRaises(Last(expression), span.v)
  THEN "expression update failed"
  ELSE None

\* update_node without "span": None in the dict it returns
UpdateNodeKeepsSpan ==
  /\ pc = "update"
  /\ IF UpdateError # None
     THEN /\ error' = UpdateError
          /\ UNCHANGED <<expression, operator, lhs, rhs, span, tool>>
     ELSE LET value_str == format_number(Last(messages).content.value)
              cur_expr == Last(expression)
              new_expr == IF Truthy(span) THEN replace_span(cur_expr, span.v, value_str)
                          ELSE value_str
          IN /\ expression' = Append(expression, new_expr)
             /\ operator' = None
             /\ lhs' = NoneText
             /\ rhs' = NoneText
             /\ tool' = None
             /\ UNCHANGED <<span, error>>
  /\ pc' \in AfterUpdate(error')
  /\ UNCHANGED <<input, messages, asked, decisions, computations>>

UpdateNode ==
  /\ pc = "update"
  /\ IF UpdateError # None
     THEN /\ error' = UpdateError
          /\ UNCHANGED <<expression, operator, lhs, rhs, span, tool>>
     ELSE LET value_str == format_number(Last(messages).content.value)
              cur_expr == Last(expression)
              new_expr == IF Truthy(span) THEN replace_span(cur_expr, span.v, value_str)
                          ELSE value_str
          IN /\ expression' = Append(expression, new_expr)
             /\ operator' = None
             /\ lhs' = NoneText
             /\ rhs' = NoneText
             /\ span' = NoneSpan
             /\ tool' = None
             /\ UNCHANGED error
  /\ pc' \in AfterUpdate(error')
  /\ UNCHANGED <<input, messages, asked, decisions, computations>>

(***************************************************************************)
(* The runs.  Spec: both collaborators are language models and answer      *)
(* anything.  SpecDet: the decision is find_next_operation on the tokens  *)
(* of the current expression and the computation is the tool named by the  *)
(* decision on float(lhs), float(rhs).                                     *)
(***************************************************************************)

\* the longest number-like input of Spec
MaxNumLen == 3
\* the rewrites after which no further decision is asked for in Spec
MaxIter == 2
\* the longest well-formed input of SpecDet
MaxLen == 5
\* the rewrites after which no further decision is asked for in SpecDet
MaxDetIter == 8

Strings(chars, n) == UNION {[1..k -> chars] : k \in 0..n}

NumChars == {"7", "-", "+", ".", "e", " "}
NumberTexts == {s \in Strings(NumChars, MaxNumLen) : is_single_number(s)}

Smoke == <<"1", "+", "2", "*", "3", "+", "(", "3", "-", "1", ")", "*", "4", "/", "2">>

OtherTexts ==
  { <<>>, <<" ">>, <<"5", "/", "0">>, <<"1", "+", "2", "*", "3">>, <<"(", "7", ")">>,
    <<"7", "/">>, <<"(", "1", "+", "1", ")">>, <<"1", "+", "(", "7", ")">> }

LoopInputs ==
  {StrInput(s) : s \in NumberTexts \cup OtherTexts}
    \cup {MissingInput, ListInput(<<>>), ListInput(<< <<"7">> >>)}

\* what a decision collaborator may answer on cur
JudgeSpans(cur) ==
  {NoneSpan, ListSpan(<<0>>)}
    \cup {ListSpan(sp) : sp \in {<<0, 0>>, <<0, Len(cur)>>, <<1, Len(cur) - 1>>,
                                 <<Len(cur) - 2, Len(cur) - 1>>,
                                 <<Len(cur) + 1, Len(cur) + 2>>, <<Len(cur) + 1, 0>>}}

JudgeResponses(cur) ==
  {JudgeRaise}
    \cup {JudgeDict(None, NoneText, NoneText, NoneSpan, None)}
    \cup {JudgeDict(op, <<"1">>, <<"0">>, sp, ToolOf(op)) :
            op \in {"/", "+"}, sp \in JudgeSpans(cur)}

\* what a computation collaborator may answer
CalcResponses ==
  {CalcRaise, CalcMessage(<<>>), CalcMessage(<<BadCall>>)}
    \cup {CalcMessage(<<ToolCall(name, Rat(1, 1), Rat(r, 1))>>) :
            name \in {"sub", "div"}, r \in {0, 2}}

Judge ==
  /\ pc = "judge"
  /\ expression # <<>>
  /\ Rewrites < MaxIter \/ is_single_number(Last(expression))
  /\ \E resp \in JudgeResponses(Last(expression)) : JudgeNode(resp)

Calc == \E resp \in CalcResponses : CalcNode(resp)

Init == InitWith(LoopInputs)

Next == StartNode \/ Judge \/ Calc \/ ToolNode \/ UpdateNode

Spec == Init /\ [][Next]_vars

\* the decision as json.dumps(find_next_operation(parse_expression(cur), cur)): None and
\* an IndexError both make judge_node's try block fail
ResolverResponse(cur) ==
  LET op == find_next_operation(parse_expression(cur))
  IN IF op.kind = "op"
     THEN JudgeDict(op.operator, op.lhs, op.rhs, ListSpan(op.span), op.tool)
     ELSE JudgeRaise

\* the computation as the call of the decision's tool on float(lhs), float(rhs)
ToolsResponse ==
  IF tool \notin CALC_TOOLS \/ FloatRaises(lhs) \/ FloatRaises(rhs)
  THEN CalcMessage(<<BadCall>>)
  ELSE CalcMessage(<<ToolCall(tool, ParseFloat(lhs), ParseFloat(rhs))>>)

\* a number (op number)*: digits and operators only, no sign, no parenthesis
WellFormed(s) ==
  /\ s # <<>>
  /\ \A i \in 1..Len(s) : s[i] \in Digits \cup OpChars
  /\ s[1] \in Digits
  /\ s[Len(s)] \in Digits
  /\ \A i \in 1..(Len(s) - 1) : ~(s[i] \in OpChars /\ s[i + 1] \in OpChars)

\* its number of binary operators
OperatorCount(s) == Cardinality({i \in 1..Len(s) : s[i] \in OpChars})

DetChars == {"0", "1", "3"} \cup OpChars

DetTexts ==
  {s \in Strings(DetChars, MaxLen) : WellFormed(s)}
    \cup {Smoke, <<"1", "+", "2", "*", "3">>, <<"5", "/", "0">>, <<"1", "+", "2", "*">>,
          <<"(", "1", "+", "3", ")", "*", "3">>, <<" ", "1", "+", "3">>, <<>>}

DetInputs == {StrInput(s) : s \in DetTexts}

JudgeDet ==
  /\ pc = "judge"
  /\ expression # <<>>
  /\ Rewrites < MaxDetIter \/ is_single_number(Last(expression))
  /\ JudgeNode(ResolverResponse(Last(expression)))

CalcDet == CalcNode(ToolsResponse)

InitDet == InitWith(DetInputs)

NextDet == StartNode \/ JudgeDet \/ CalcDet \/ ToolNode \/ UpdateNode

SpecDet == InitDet /\ [][NextDet]_vars

(***************************************************************************)
(* SpecBudget: a faulty decision collaborator whose span covers the left   *)
(* operand only, on expressions whose result is that operand: the rewrite  *)
(* gives the same expression back.                                         *)
(***************************************************************************)

\* CalcAgentConfig.MAX_STEPS
MAX_STEPS == 100
\* the rewrites after which no further decision is asked for in SpecBudget
MaxBudgetIter == 101

FaultyResponse(cur) ==
  LET op == find_next_operation(parse_expression(cur))
  IN IF op.kind = "op"
     THEN JudgeDict(op.operator, op.lhs, op.rhs,
                    ListSpan(<<op.span[1], op.span[1] + Len(op.lhs)>>), op.tool)
     ELSE JudgeRaise

BudgetTexts ==
  { <<"1", "*", "1">>, <<"0", "+", "0">>, <<"3", "/", "1">>, <<"3", "-", "0">> }

JudgeFaulty ==
  /\ pc = "judge"
  /\ expression # <<>>
  /\ Rewrites < MaxBudgetIter \/ is_single_number(Last(expression))
  /\ JudgeNode(FaultyResponse(Last(expression)))

InitBudget == InitWith({StrInput(s) : s \in BudgetTexts})

NextBudget == StartNode \/ JudgeFaulty \/ CalcDet \/ ToolNode \/ UpdateNode

SpecBudget == InitBudget /\ [][NextBudget]_vars

(***************************************************************************)
(* SpecText: the Precedence Resolver and the Span Rewriter on any text.    *)
(* Resolve calls find_next_operation(parse_expression(cur), cur) on the    *)
(* last snapshot, whatever it is, and an exception of the call leaves the  *)
(* run; the routing is route_after_judge's, the computation is the         *)
(* decision's tool and the rewrite is update_node's.                       *)
(***************************************************************************)

\* the longest input of SpecText
MaxTextLen == 5
\* the rewrites after which the resolver is not called again in SpecText
MaxTextIter == 4

TextChars == {"1", "-", "/", "(", ")", " ", "."}

\* texts with an exponent marker; their exponents have one digit wherever an operator
\* makes float() read them
ExponentTexts ==
  Strings({"1", "e", "-", "."}, 4)
    \cup { <<"1", "e", "1", "-", "1">>, <<"1", "-", "1", "e", "1">>,
           <<"1", "E", "+", "1">>, <<" ", "1", "e", "-", "1", "/", "1">> }

TextInputs == {StrInput(s) : s \in Strings(TextChars, MaxTextLen) \cup ExponentTexts}

Resolve ==
  /\ pc = "judge"
  /\ expression # <<>>
  /\ Rewrites < MaxTextIter
  /\ asked' = Last(expression)
  /\ decisions' = decisions + 1
  /\ LET op == find_next_operation(parse_expression(Last(expression)))
     IN CASE op.kind = "op" ->
               /\ operator' = op.operator
               /\ lhs' = op.lhs
               /\ rhs' = op.rhs
               /\ span' = ListSpan(op.span)
               /\ tool' = op.tool
               /\ pc' = route_after_judge(error, expression, operator')
          [] op.kind = "none" ->
               /\ UNCHANGED <<operator, lhs, rhs, span, tool>>
               /\ pc' = "done"
          [] op.kind = "raise" ->
               /\ UNCHANGED <<operator, lhs, rhs, span, tool>>
               /\ pc' = "raised"
  /\ UNCHANGED <<input, expression, messages, error, computations>>

InitText == InitWith(TextInputs)

NextText == StartNode \/ Resolve \/ CalcDet \/ ToolNode \/ UpdateNode

SpecText == InitText /\ [][NextText]_vars

(***************************************************************************)
(* The claims                                                              *)
(***************************************************************************)

WellFormedInput == input.kind = "str" /\ WellFormed(input.text)

\* the Operator tokens of an expression
OperatorTokens(e) ==
  LET toks == parse_expression(e)
  IN {i \in 1..Len(toks) : toks[i].type = "operator"}

\* standard precedence: * and / bind before + and -
Rank(op) == IF op \in {"*", "/"} THEN 2 ELSE 1

\* the pending operation is an operator of the current expression of highest rank,
\* the leftmost of that rank, with its neighbours in token order as operands
ChosenLeftmostHighest ==
  LET toks == parse_expression(Last(expression))
  IN \E i \in OperatorTokens(Last(expression)) :
       /\ i > 1 /\ i < Len(toks)
       /\ toks[i].value = <<operator>>
       /\ lhs = toks[i - 1].value
       /\ rhs = toks[i + 1].value
       /\ span = ListSpan(<<toks[i - 1].start, toks[i + 1].end>>)
       /\ \A j \in OperatorTokens(Last(expression)) :
            /\ Rank(toks[j].value[1]) <= Rank(toks[i].value[1])
            /\ j < i => Rank(toks[j].value[1]) < Rank(toks[i].value[1])

SingleNumberInput == input.kind = "str" /\ is_single_number(input.text)

\* C2: on an input that is already a single number the run goes from start_node to
\* judge_node to END: no decision call, no computation call, no error, nothing
\* pending, and the history is the input alone.
C2_SingleNumberInput ==
  SingleNumberInput =>
    /\ pc \in {"start", "judge", "done"}
    /\ decisions = 0
    /\ computations = 0
    /\ error = None
    /\ messages = <<>>
    /\ <<operator, lhs, rhs, span, tool>> = <<None, NoneText, NoneText, NoneSpan, None>>
    /\ pc # "start" => expression = <<input.text>>

\* the run on " -7" has ended
C2_Witness ==
  /\ input = StrInput(<<" ", "-", "7">>)
  /\ pc = "done"
  /\ expression = << <<" ", "-", "7">> >>

\* C3: with the Precedence Resolver and the tools, "1+2*3+(3-1)*4/2" ends without
\* error, with the input as first snapshot and "11" as last.
C3_SmokeResult ==
  (input = StrInput(Smoke) /\ pc = "done") =>
    /\ error = None
    /\ expression[1] = Smoke
    /\ Last(expression) = <<"1", "1">>

\* what C4 says the first snapshot is
Normalised(in) == IF in.kind = "str" /\ in.text # <<>> THEN in.text ELSE <<"0">>

\* C4: for a bare string, a missing or an empty expression, after start_node the
\* history starts as the one snapshot holding the input, "0" for an empty string and
\* for a missing or empty expression, and the run on those ends without error on "0".
C4_StartNormalisation ==
  (pc # "start" /\ (input.kind \in {"str", "missing"} \/ input.list = <<>>)) =>
    /\ expression[1] = Normalised(input)
    /\ Rewrites = 0 => expression = <<Normalised(input)>>
    /\ (pc = "done" /\ Normalised(input) = <<"0">>) =>
         error = None /\ expression = << <<"0">> >>

\* C5: a run whose decisions never reduce the expression makes at most MAX_STEPS
\* rewrites.
C5_StepBudget == Rewrites <= MAX_STEPS

\* the computation step reported an error: the last message is the tool's error
ComputationErrorReported ==
  /\ messages # <<>>
  /\ Last(messages).type = "tool"
  /\ Last(messages).content.kind = "error"

\* C6: a run in which the computation step reported an error ends with that error,
\* verbatim, in the error field.
C6_ErrorVerbatim ==
  (pc = "done" /\ ComputationErrorReported) => error = Last(messages).content.error

\* C7: at END either the error field is set or the last snapshot is a single number.
C7_TerminalOutcome ==
  pc = "done" => error # None \/ is_single_number(Last(expression))

\* C8: once the error field is set, no step changes the history or a pending field.
C8_ErrorIsTerminal ==
  [][error # None => UNCHANGED <<expression, operator, lhs, rhs, span, tool>>]_vars

\* C9: no failure of a collaborator call leaves the graph as an exception.
C9_NoEscape == pc # "raised"

\* C10: after start_node the history is never empty; a step leaves it unchanged or
\* is update_node appending one snapshot behind the unchanged earlier ones and
\* clearing every pending field; a decision call is given the last snapshot.
C10_AppendOnly ==
  /\ [](pc # "start" => Len(expression) >= 1)
  /\ [][pc # "start" =>
          \/ UNCHANGED expression
          \/ /\ pc = "update"
             /\ Len(expression') = Len(expression) + 1
             /\ SubSeq(expression', 1, Len(expression)) = expression
             /\ <<operator', lhs', rhs', span', tool'>>
                  = <<None, NoneText, NoneText, NoneSpan, None>>]_vars
  /\ [][decisions' # decisions => asked' = Last(expression)]_vars

\* a second decision was asked on the snapshot the first rewrite appended
C10_Witness ==
  /\ Rewrites = 1
  /\ decisions = 2
  /\ Len(expression) = 2
  /\ asked = expression[2]
  /\ asked # expression[1]

\* the text given to the last call of the resolver, and what the call made of it
AskedTokens == parse_expression(asked)
AskedOperation == find_next_operation(AskedTokens)

\* the resolver has returned an operation on the current expression
OperationPending == pc = "calc" /\ asked = Last(expression)

\* C11: a rewrite of e at the span of the operation the resolver returned on e, with
\* the formatted result, leaves exactly one Operator token less than e has.
C11_OneOperatorLess ==
  [][(pc = "update" /\ Len(expression') = Len(expression) + 1) =>
       Cardinality(OperatorTokens(Last(expression')))
         = Cardinality(OperatorTokens(Last(expression))) - 1]_vars

\* s without its whitespace
NoSpaces(s) == SelectSeq(s, LAMBDA c : ~IsSpace(c))

RECURSIVE Depth(_, _)
\* the nesting depth after s, from depth d; -1 once a ")" closes nothing
Depth(s, d) ==
  IF d < 0 \/ s = <<>> THEN d
  ELSE Depth(Tail(s), IF Head(s) = "(" THEN d + 1 ELSE IF Head(s) = ")" THEN d - 1 ELSE d)

Balanced(s) == Depth(s, 0) = 0

\* operands and operators alternate: number (operator number)*
Alternating(s) ==
  LET toks == parse_expression(s)
  IN /\ Len(toks) % 2 = 1
     /\ \A i \in 1..Len(toks) :
          toks[i].type = (IF i % 2 = 1 THEN "number" ELSE "operator")

\* C12: the span of the operation the resolver returns on e lies within e, e[start:end]
\* is lhs operator rhs up to whitespace, and the rewrite at it gives an expression in
\* which operands and operators alternate, with balanced parentheses if e had them.
C12_SpanDenotesOperation ==
  /\ [](OperationPending =>
          LET e == Last(expression)
              start == span.v[1]
              end == span.v[2]
          IN /\ 0 <= start /\ start <= end /\ end <= Len(e)
             /\ NoSpaces(SubSeq(e, start + 1, end)) = lhs \o <<operator>> \o rhs)
  /\ [][(pc = "update" /\ Len(expression') = Len(expression) + 1) =>
          /\ Alternating(Last(expression'))
          /\ Balanced(Last(expression)) => Balanced(Last(expression'))]_vars

\* C13: on the tokens of any text find_next_operation never raises; it returns None
\* when there are fewer than 3 tokens or no Operator token, and otherwise an operation
\* whose lhs and rhs are the Number tokens next to the chosen operator, with
\* span = [lhs.start, rhs.end].
C13_ResolverTotal ==
  decisions > 0 =>
    LET toks == AskedTokens
        op == AskedOperation
    IN /\ op.kind # "raise"
       /\ pc # "raised"
       /\ IF Len(toks) < 3 \/ \A i \in 1..Len(toks) : toks[i].type # "operator"
          THEN op.kind = "none"
          ELSE /\ op.kind = "op"
               /\ \E i \in 2..(Len(toks) - 1) :
                    /\ toks[i].type = "operator"
                    /\ toks[i].value = <<op.operator>>
                    /\ toks[i - 1].type = "number" /\ toks[i - 1].value = op.lhs
                    /\ toks[i + 1].type = "number" /\ toks[i + 1].value = op.rhs
                    /\ op.span = <<toks[i - 1].start, toks[i + 1].end>>

\* C14: every token of parse_expression(expr) has expr[start:end] as its text, and a
\* token starts no earlier than the token before it ends.
C14_OffsetsIndexOriginal ==
  decisions > 0 =>
    LET toks == AskedTokens
    IN /\ \A i \in 1..Len(toks) :
            Slice(asked, toks[i].start, toks[i].end) = toks[i].value
       /\ \A i \in 1..(Len(toks) - 1) : toks[i + 1].start >= toks[i].end

\* C15: the text of every Number token of parse_expression matches the number grammar.
C15_NumberTokensAreNumbers ==
  decisions > 0 =>
    \A i \in 1..Len(AskedTokens) :
      AskedTokens[i].type = "number" => MatchesNumber(AskedTokens[i].value)

\* update_node is about to rewrite: the tool answered a value and the span is a list
\* of two offsets
RewriteDue ==
  /\ pc = "update"
  /\ messages # <<>>
  /\ Last(messages).type = "tool"
  /\ Last(messages).content.kind = "value"
  /\ Truthy(span)
  /\ Len(span.v) = 2

\* C16: for a span with 0 <= start <= end <= len(expr), replace_span gives
\* expr[0:start-1] + r + expr[end+1:] when "(" stands right before start and ")" at
\* end, and expr[0:start] + r + expr[end:] otherwise.
C16_SpanRewriter ==
  [][(RewriteDue /\ 0 <= span.v[1] /\ span.v[1] <= span.v[2]
        /\ span.v[2] <= Len(Last(expression))) =>
       LET expr == Last(expression)
           start == span.v[1]
           end == span.v[2]
           r == format_number(Last(messages).content.value)
           wrapped == /\ start >= 1
                      /\ end + 1 <= Len(expr)
                      /\ expr[start] = "("
                      /\ expr[end + 1] = ")"
       IN /\ error' = None
          /\ expression' =
               Append(expression,
                      IF wrapped
                      THEN SubSeq(expr, 1, start - 1) \o r \o SubSeq(expr, end + 2, Len(expr))
                      ELSE SubSeq(expr, 1, start) \o r \o SubSeq(expr, end + 1, Len(expr)))]_vars

\* "1+(7)" was rewritten at the span [3, 4] of the 7: the parentheses went with it
C16_Witness ==
  /\ input = StrInput(<<"1", "+", "(", "7", ")">>)
  /\ expression = << <<"1", "+", "(", "7", ")">>, <<"1", "+", "0", ".", "5">> >>

\* C17: when the span is out of bounds for the current expression (an offset outside
\* [0, len], or start > end), update_node sets the error and appends nothing.
C17_RewriteFailure ==
  [][(RewriteDue /\ ~(0 <= span.v[1] /\ span.v[1] <= span.v[2]
                        /\ span.v[2] <= Len(Last(expression)))) =>
       (error' # None /\ expression' = expression)]_vars

\* C18: one node runs at a time, so no step makes a decision call and a computation
\* call together; a computation call follows a decision call on the last snapshot
\* with no rewrite in between, and an append follows exactly one computation call
\* made since the append before it.
C18_StrictSequencing ==
  /\ [](pc \in {"start", "judge", "calc", "tool", "update", "done", "raised"})
  /\ [](\A err \in {None, error} : Cardinality(AfterUpdate(err)) = 1)
  /\ [](pc \in {"calc", "tool", "update"} =>
          /\ asked = Last(expression)
          /\ decisions = Rewrites + 1
          /\ computations = Rewrites + (IF pc = "calc" THEN 0 ELSE 1))
  /\ [][~(decisions' # decisions /\ computations' # computations)]_vars
  /\ [][computations' # computations =>
          /\ pc = "calc"
          /\ computations' = computations + 1
          /\ UNCHANGED <<expression, decisions>>]_vars
  /\ [][decisions' # decisions =>
          /\ pc = "judge"
          /\ decisions' = decisions + 1
          /\ UNCHANGED <<expression, computations>>]_vars
  /\ [][(pc # "start" /\ expression' # expression) =>
          /\ pc = "update"
          /\ computations = Rewrites + 1
          /\ UNCHANGED <<decisions, computations>>]_vars

\* two iterations ran: two decisions, two computations, two appends, and a third
\* decision is due
C18_Witness ==
  /\ pc = "judge"
  /\ Rewrites = 2
  /\ decisions = 2
  /\ computations = 2

\* C19: a text is_single_number accepts has exactly one token, a Number whose text is
\* the stripped text, and find_next_operation returns None on it: the resolver never
\* picks an operation in a finished expression.
C19_NumberIsOneToken ==
  (decisions > 0 /\ is_single_number(asked)) =>
    /\ Len(AskedTokens) = 1
    /\ AskedTokens[1].type = "number"
    /\ AskedTokens[1].value = Strip(asked)
    /\ AskedOperation = NoOperation
    /\ pc = "done"
    /\ <<operator, lhs, rhs, span, tool>> = <<None, NoneText, NoneText, NoneSpan, None>>

\* the resolver was called on " -1.1" and returned None
C19_Witness ==
  /\ input = StrInput(<<" ", "-", "1", ".", "1">>)
  /\ decisions = 1
  /\ asked = <<" ", "-", "1", ".", "1">>
  /\ pc = "done"

====
